---- MODULE Spec2Model ----
(***************************************************************************)
(* Model of nhdnet's flowline cutter (nhdnet/nhd/cut.py) and of the        *)
(* functional-network builder (nhdnet/nhd/network.py as driven by          *)
(* custom/sarp/network_analysis.py).                                       *)
(*                                                                         *)
(* Tables (pandas data frames) are sequences of records, in row order.     *)
(* A flowline's geometry is a straight line given by its curvilinear      *)
(* coordinates [start, end] in whole metres; a barrier's geometry is the   *)
(* curvilinear coordinate `pos` of the snapped point on the line it was    *)
(* snapped to, so that line.project(point) = pos - start clamped to the    *)
(* line.                                                                   *)
(***************************************************************************)
EXTENDS Integers, Sequences, FiniteSets, TLC

VARIABLES
    pc,                 \* position of the processing script
    flowlines,          \* input flowline table F
    joins,              \* input join table J
    barriers,           \* input snapped-barrier table B
    next_segment_id,    \* the argument of cut_flowlines (None: omitted)
    updated_flowlines,  \* F' returned by cut_flowlines
    updated_joins,      \* J' returned by cut_flowlines
    barrier_joins,      \* BJ returned by cut_flowlines
    barrier_segments,   \* upstream_id column of the barrier segments
    upstreams,          \* dict: downstream_id -> list of upstream_ids
    root_ids,           \* upstream_id column of the origin roots
    ri,                 \* index of the root being traversed
    ids,                \* generate_network: the frontier
    network,            \* generate_network: the ids collected so far
    iterations,         \* generate_network: iterations of the while loop
    origin_networks,    \* rows (networkID, network) of the origin networks
    barrier_networks,   \* rows (networkID, network) of the barrier networks
    network_df,         \* flowlines joined to their networks
    barrier_network_csv,\* the per-barrier metrics written to barrier_network.csv
    recut,              \* a second cut_flowlines on (F', J'): its barriers and result
    df,                 \* the caller's frame of roots given to generate_networks
    args,               \* the arguments of a data-preparation function
    ret                 \* what that function returned

vars == <<pc, flowlines, joins, barriers, next_segment_id, updated_flowlines,
          updated_joins, barrier_joins, barrier_segments, upstreams, root_ids,
          ri, ids, network, iterations, origin_networks, barrier_networks,
          network_df, barrier_network_csv, recut, df, args, ret>>

(***************************************************************************)
(* Bounds of the model.                                                    *)
(***************************************************************************)
NumLines == 3
MaxJoins == 3
MaxBarriers == 2
MaxRows == 4
MaxLen == 5

(***************************************************************************)
(* Program constants and the values pandas uses for "missing".             *)
(***************************************************************************)
EPS == 1

\* pandas' NaN in a numeric column (a left join that found no row)
NaN == -1

\* pandas' NaN in the string column `type`
NoType == "NaN"

\* Python's None for the omitted next_segment_id argument
None == 0

(***************************************************************************)
(* Sequence helpers.                                                       *)
(***************************************************************************)
Range(s) == {s[i] : i \in DOMAIN s}

RECURSIVE Flatten(_)
Flatten(ss) == IF ss = <<>> THEN <<>> ELSE Head(ss) \o Flatten(Tail(ss))

\* [f(s[1]), f(s[2]), ...]
Map(f(_), s) == [i \in DOMAIN s |-> f(s[i])]

\* the concatenation of f(s[1]), f(s[2]), ...
FlatMap(f(_), s) == Flatten([i \in DOMAIN s |-> f(s[i])])

Max(S) == CHOOSE x \in S : \A y \in S : y <= x

\* stable insertion of row r into the sorted sequence s, after every row
\* that is not greater (lt is the strict order)
RECURSIVE InsertSorted(_, _, _)
InsertSorted(lt(_, _), r, s) ==
    IF s = <<>> THEN <<r>>
    ELSE IF lt(r, Head(s)) THEN <<r>> \o s
    ELSE <<Head(s)>> \o InsertSorted(lt, r, Tail(s))

\* stable sort of s by the strict order lt
RECURSIVE SortBy(_, _)
SortBy(lt(_, _), s) ==
    IF s = <<>> THEN <<>>
    ELSE InsertSorted(lt, s[Len(s)], SortBy(lt, SubSeq(s, 1, Len(s) - 1)))

(***************************************************************************)
(* Geometry: nhdnet/geometry/lines.py on straight lines.                   *)
(***************************************************************************)
Line(start, end) == [start |-> start, end |-> end]

GeomLength(line) == line.end - line.start

\* shapely's line.project(point): the distance along the line of the point
\* of the line nearest to `point`
Project(line, point) ==
    IF point <= line.start THEN 0
    ELSE IF point >= line.end THEN GeomLength(line)
    ELSE point - line.start

\* shapely's line.interpolate(distance), as a curvilinear coordinate
Interpolate(line, distance) == line.start + distance

cut_line_at_point(line, point) ==
    LET distance == Project(line, point) IN
    IF distance <= 0 \/ distance >= GeomLength(line)
    THEN <<line>>
    ELSE LET cp == Interpolate(line, distance)
         IN  <<Line(line.start, cp), Line(cp, line.end)>>

\* the loop of cut_line_at_points; `segment, remainder = ...` raises
\* ValueError when cut_line_at_point returns a single line
RECURSIVE cut_line_loop(_, _, _)
cut_line_loop(segments, remainder, points) ==
    IF points = <<>>
    THEN [raised |-> FALSE, segments |-> Append(segments, remainder)]
    ELSE LET parts == cut_line_at_point(remainder, Head(points)) IN
         IF Len(parts) # 2
         THEN [raised |-> TRUE, segments |-> <<>>]
         ELSE cut_line_loop(Append(segments, parts[1]), parts[2], Tail(points))

cut_line_at_points(line, points) == cut_line_loop(<<>>, line, points)

(***************************************************************************)
(* nhdnet/nhd/cut.py: cut_flowlines, one definition per data frame.        *)
(***************************************************************************)
LineIDs(F) == {F[i].lineID : i \in DOMAIN F}

\* NextSegmentId whose default is the largest lineID itself
NextSegmentId_NoIncrement(F, nsid) ==
    IF nsid = None THEN Max(LineIDs(F)) ELSE nsid

\* next_segment_id after the default is applied
NextSegmentId(F, nsid) ==
    IF nsid = None THEN Max(LineIDs(F)) + 1 ELSE nsid

OnUpstream(linepos) == linepos <= EPS

OnDownstream(linepos, length) == linepos >= length - EPS

\* one row of barrier_segments: a flowline joined to a barrier on it
BarrierSegmentRow(f, b) ==
    LET linepos == Project(f.geometry, b.pos) IN
    [lineID |-> f.lineID, NHDPlusID |-> f.NHDPlusID, geometry |-> f.geometry,
     geometry_barrier |-> b.pos, barrierID |-> b.barrierID, linepos |-> linepos,
     on_upstream |-> OnUpstream(linepos),
     on_downstream |-> OnDownstream(linepos, GeomLength(f.geometry))]

\* flowlines inner-joined to the barriers on lineID, in flowline order
BarrierSegments(F, B) ==
    LET RowsOf(f) ==
            LET OnLine(b) == b.lineID = f.lineID
                Row(b) == BarrierSegmentRow(f, b)
            IN  Map(Row, SelectSeq(B, OnLine))
    IN  FlatMap(RowsOf, F)

\* UpstreamBarrierJoins that keeps one upstream join per barrier
UpstreamBarrierJoins_FirstOnly(bs, J) ==
    LET RowsOf(r) ==
            LET Into(j) == j.downstream_id = r.lineID
                found == SelectSeq(J, Into)
            IN  <<[barrierID |-> r.barrierID,
                   upstream_id |-> IF found = <<>> THEN NaN ELSE found[1].upstream_id,
                   downstream_id |-> r.lineID]>>
        IsUp(r) == r.on_upstream
    IN  FlatMap(RowsOf, SelectSeq(bs, IsUp))

\* a barrier on the upstream end of its line: one row per join that has the
\* line as its downstream_id, NaN when there is none (left join)
UpstreamBarrierJoins(bs, J) ==
    LET RowsOf(r) ==
            LET Into(j) == j.downstream_id = r.lineID
                Row(j) == [barrierID |-> r.barrierID, upstream_id |-> j.upstream_id,
                           downstream_id |-> r.lineID]
                found == SelectSeq(J, Into)
            IN  IF found = <<>>
                THEN <<[barrierID |-> r.barrierID, upstream_id |-> NaN,
                        downstream_id |-> r.lineID]>>
                ELSE Map(Row, found)
        IsUp(r) == r.on_upstream
    IN  FlatMap(RowsOf, SelectSeq(bs, IsUp))

\* a barrier on the downstream end of its line: one row per join that has
\* the line as its upstream_id
DownstreamBarrierJoins(bs, J) ==
    LET RowsOf(r) ==
            LET OutOf(j) == j.upstream_id = r.lineID
                Row(j) == [barrierID |-> r.barrierID, upstream_id |-> r.lineID,
                           downstream_id |-> j.downstream_id]
                found == SelectSeq(J, OutOf)
            IN  IF found = <<>>
                THEN <<[barrierID |-> r.barrierID, upstream_id |-> r.lineID,
                        downstream_id |-> NaN]>>
                ELSE Map(Row, found)
        IsDown(r) == r.on_downstream
    IN  FlatMap(RowsOf, SelectSeq(bs, IsDown))

\* sort_values(by=["idx", "linepos"]): the order of the split segments
SplitBefore(a, b) ==
    \/ a.lineID < b.lineID
    \/ a.lineID = b.lineID /\ a.linepos < b.linepos

\* the barriers that are on neither end of their line, ordered by line and
\* position
SplitSegments(bs) ==
    LET IsSplit(r) == ~(r.on_upstream \/ r.on_downstream)
    IN  SortBy(SplitBefore, SelectSeq(bs, IsSplit))

\* groupby("lineID").agg(...): one row per split line, in lineID order, with
\* the lists of its barriers' ids and points in split_segments order
Grouped(split) ==
    LET keys == {split[i].lineID : i \in DOMAIN split}
        RECURSIVE Rows(_)
        Rows(left) ==
            IF left = {} THEN <<>>
            ELSE LET k == CHOOSE x \in left : \A y \in left : x <= y
                     OfLine(r) == r.lineID = k
                     BarrierIdOf(r) == r.barrierID
                     PointOf(r) == r.geometry_barrier
                     members == SelectSeq(split, OfLine)
                 IN  <<[lineID |-> k, NHDPlusID |-> members[1].NHDPlusID,
                        geometry |-> members[1].geometry,
                        barrierID |-> Map(BarrierIdOf, members),
                        geometry_barrier |-> Map(PointOf, members)]>>
                     \o Rows(left \ {k})
    IN  Rows(keys)

\* grouped.apply(cut_line_at_points): the cut result of every split line
Geoms(grouped) ==
    LET Cut(g) == cut_line_at_points(g.geometry, g.geometry_barrier)
    IN  Map(Cut, grouped)

\* NewSegments numbered from the last row down
NewSegments_Reversed(grouped, geoms, next_id) ==
    LET RowsOf(k) ==
            [i \in DOMAIN geoms[k].segments |->
                [origLineID |-> grouped[k].lineID, i |-> i - 1,
                 geometry |-> geoms[k].segments[i]]]
        rows == Flatten([k \in DOMAIN grouped |-> RowsOf(k)])
    IN  [n \in DOMAIN rows |->
            [origLineID |-> rows[n].origLineID, i |-> rows[n].i,
             geometry |-> rows[n].geometry, lineID |-> next_id + (Len(rows) - n)]]

\* geoms pivoted into rows (origLineID, i, geometry), then numbered from
\* next_id in row order
NewSegments(grouped, geoms, next_id) ==
    LET RowsOf(k) ==
            [i \in DOMAIN geoms[k].segments |->
                [origLineID |-> grouped[k].lineID, i |-> i - 1,
                 geometry |-> geoms[k].segments[i]]]
        rows == Flatten([k \in DOMAIN grouped |-> RowsOf(k)])
    IN  [n \in DOMAIN rows |->
            [origLineID |-> rows[n].origLineID, i |-> rows[n].i,
             geometry |-> rows[n].geometry, lineID |-> next_id + (n - 1)]]

\* flowlines whose lineID is not the line of any split
UnsplitSegments(F, split) ==
    LET splitIDs == {split[i].lineID : i \in DOMAIN split}
        NotSplit(f) == f.lineID \notin splitIDs
    IN  SelectSeq(F, NotSplit)

\* the flowline with the given lineID (flowlines is indexed on lineID)
FlowlineOf(F, id) == F[CHOOSE i \in DOMAIN F : F[i].lineID = id]

\* prep_new_flowlines: attributes of the original line, length of the piece
prep_new_flowlines(F, new_segments) ==
    LET Row(n) == [lineID |-> n.lineID,
                   NHDPlusID |-> FlowlineOf(F, n.origLineID).NHDPlusID,
                   geometry |-> n.geometry,
                   length |-> GeomLength(n.geometry)]
    IN  Map(Row, new_segments)

\* l.first(): lineID of the first new segment of an original line
FirstOf(new_segments, orig) ==
    new_segments[CHOOSE n \in DOMAIN new_segments :
        /\ new_segments[n].origLineID = orig
        /\ \A m \in DOMAIN new_segments :
              new_segments[m].origLineID = orig => n <= m].lineID

\* l.last(): lineID of the last new segment of an original line
LastOf(new_segments, orig) ==
    new_segments[CHOOSE n \in DOMAIN new_segments :
        /\ new_segments[n].origLineID = orig
        /\ \A m \in DOMAIN new_segments :
              new_segments[m].origLineID = orig => m <= n].lineID

OrigLineIDs(new_segments) ==
    {new_segments[n].origLineID : n \in DOMAIN new_segments}

\* l.first() and l.last() as Series indexed on the original lineID
First(new_segments) ==
    [o \in OrigLineIDs(new_segments) |-> FirstOf(new_segments, o)]

Last(new_segments) ==
    [o \in OrigLineIDs(new_segments) |-> LastOf(new_segments, o)]

\* update_joins that copies only the new downstream ids across
update_joins_DownstreamOnly(J, new_downstreams, new_upstreams) ==
    LET Row(j) ==
            [j EXCEPT
                !.downstream_id =
                    IF @ \in DOMAIN new_downstreams THEN new_downstreams[@] ELSE @]
    IN  Map(Row, J)

\* update_joins with the first and the last new segment exchanged
update_joins_Swapped(J, new_downstreams, new_upstreams) ==
    LET Row(j) ==
            [j EXCEPT
                !.downstream_id =
                    IF @ \in DOMAIN new_upstreams THEN new_upstreams[@] ELSE @,
                !.upstream_id =
                    IF @ \in DOMAIN new_downstreams THEN new_downstreams[@] ELSE @]
    IN  Map(Row, J)

\* update_joins: the new id replaces a join's downstream_id where
\* new_downstreams has the old id, and its upstream_id where new_upstreams
\* has it; both lookups are made on the ids the join came with
update_joins(J, new_downstreams, new_upstreams) ==
    LET Row(j) ==
            [j EXCEPT
                !.downstream_id =
                    IF @ \in DOMAIN new_downstreams THEN new_downstreams[@] ELSE @,
                !.upstream_id =
                    IF @ \in DOMAIN new_upstreams THEN new_upstreams[@] ELSE @]
    IN  Map(Row, J)

\* upstream_side: (origLineID, i) -> lineID of the new segments that are not
\* the last of their line; NaN where the left join finds no row
UpstreamSide(new_segments, orig, i) ==
    LET last == Range(Last(new_segments))
        hit == {n \in DOMAIN new_segments :
                    /\ new_segments[n].lineID \notin last
                    /\ new_segments[n].origLineID = orig
                    /\ new_segments[n].i = i}
    IN  IF hit = {} THEN NaN ELSE new_segments[CHOOSE n \in hit : TRUE].lineID

\* downstream_side: (origLineID, i - 1) -> lineID of the new segments that
\* are not the first of their line
DownstreamSide(new_segments, orig, i) ==
    LET first == Range(First(new_segments))
        hit == {n \in DOMAIN new_segments :
                    /\ new_segments[n].lineID \notin first
                    /\ new_segments[n].origLineID = orig
                    /\ new_segments[n].i - 1 = i}
    IN  IF hit = {} THEN NaN ELSE new_segments[CHOOSE n \in hit : TRUE].lineID

\* new_joins: one row per split barrier, between the segments on both sides
\* of its cut
NewJoins(grouped, new_segments) ==
    LET RowsOf(g) ==
            [k \in DOMAIN g.barrierID |->
                [origLineID |-> g.lineID, i |-> k - 1, barrierID |-> g.barrierID[k],
                 upstream_id |-> UpstreamSide(new_segments, g.lineID, k - 1),
                 downstream_id |-> DownstreamSide(new_segments, g.lineID, k - 1),
                 upstream |-> g.NHDPlusID, downstream |-> g.NHDPlusID,
                 type |-> "internal"]]
    IN  FlatMap(RowsOf, grouped)

\* new_joins[["upstream", "downstream", "upstream_id", "downstream_id"]]
\* appended to the joins: the column `type` is not among them
NewJoinRow(n) ==
    [upstream_id |-> n.upstream_id, downstream_id |-> n.downstream_id,
     upstream |-> n.upstream, downstream |-> n.downstream, type |-> NoType]

\* NewBarrierJoinRow with the two sides of the cut exchanged
NewBarrierJoinRow_Swapped(n) ==
    [barrierID |-> n.barrierID, upstream_id |-> n.downstream_id,
     downstream_id |-> n.upstream_id]

\* new_joins[["barrierID", "upstream_id", "downstream_id"]]
NewBarrierJoinRow(n) ==
    [barrierID |-> n.barrierID, upstream_id |-> n.upstream_id,
     downstream_id |-> n.downstream_id]

\* sort_values(["downstream_id", "upstream_id"])
JoinBefore(a, b) ==
    \/ a.downstream_id < b.downstream_id
    \/ a.downstream_id = b.downstream_id /\ a.upstream_id < b.upstream_id

\* cut_flowlines(flowlines, barriers, joins, next_segment_id): the three
\* returned tables, or raised = TRUE when an exception leaves the function
cut_flowlines(F, B, J, nsid) ==
    LET next_id == NextSegmentId(F, nsid)
        bs == BarrierSegments(F, B)
        endpoint_joins == UpstreamBarrierJoins(bs, J) \o DownstreamBarrierJoins(bs, J)
        split_segments == SplitSegments(bs)
        grouped == Grouped(split_segments)
        geoms == Geoms(grouped)
        Failed == [raised |-> TRUE, flowlines |-> <<>>, joins |-> <<>>,
                   barrier_joins |-> <<>>]
    IN  IF \E k \in DOMAIN geoms : geoms[k].raised
        THEN Failed
        ELSE
        LET new_segments == NewSegments(grouped, geoms, next_id)
            new_flowlines == prep_new_flowlines(F, new_segments)
            new_joins == NewJoins(grouped, new_segments)
        IN  IF \E n \in DOMAIN new_joins :
                  NaN \in {new_joins[n].upstream_id, new_joins[n].downstream_id}
            THEN Failed   \* astype("uint32") of a NaN
            ELSE [raised |-> FALSE,
                  flowlines |-> UnsplitSegments(F, split_segments) \o new_flowlines,
                  joins |-> SortBy(JoinBefore,
                               update_joins(J, First(new_segments), Last(new_segments))
                               \o Map(NewJoinRow, new_joins)),
                  barrier_joins |-> endpoint_joins \o Map(NewBarrierJoinRow, new_joins)]

(***************************************************************************)
(* custom/sarp/network_analysis.py: roots, upstream index, traversal.      *)
(***************************************************************************)
\* barrier_joins.loc[barrier_joins.upstream_id != 0][["upstream_id"]]
BarrierSegmentIds(BJ) ==
    LET NotOrigin(r) == r.upstream_id # 0
        UpstreamId(r) == r.upstream_id
    IN  Map(UpstreamId, SelectSeq(BJ, NotOrigin))

\* Upstreams that leaves the barrier segments in the index
Upstreams_NoBarrierStop(J, bsegs) ==
    LET Kept(j) == j.upstream_id # 0 /\ j.downstream_id # 0
        UpstreamId(j) == j.upstream_id
        kept == SelectSeq(J, Kept)
    IN  [d \in {kept[i].downstream_id : i \in DOMAIN kept} |->
            LET To(j) == j.downstream_id = d
            IN  Map(UpstreamId, SelectSeq(kept, To))]

\* the joins between two segments whose upstream is not a barrier segment,
\* grouped by downstream_id into the list of their upstream_ids
Upstreams(J, bsegs) ==
    LET Kept(j) == /\ j.upstream_id # 0
                   /\ j.downstream_id # 0
                   /\ j.upstream_id \notin Range(bsegs)
        UpstreamId(j) == j.upstream_id
        kept == SelectSeq(J, Kept)
    IN  [d \in {kept[i].downstream_id : i \in DOMAIN kept} |->
            LET To(j) == j.downstream_id = d
            IN  Map(UpstreamId, SelectSeq(kept, To))]

\* joins.loc[origin_idx & not_barrier_idx][["upstream_id"]]
RootIds(J, bsegs) ==
    LET upstream_ids == {J[i].upstream_id : i \in DOMAIN J}
        IsRoot(j) ==
            /\ j.downstream_id = 0 \/ j.downstream_id \notin upstream_ids
            /\ j.upstream_id \notin Range(bsegs)
        UpstreamId(j) == j.upstream_id
    IN  Map(UpstreamId, SelectSeq(J, IsRoot))

\* upstreams.get(id, [])
Get(ups, id) == IF id \in DOMAIN ups THEN ups[id] ELSE <<>>

\* the body of generate_network's for loop: the upstream ids of all ids
UpstreamIdsOf(ups, frontier) ==
    LET Ups(id) == Get(ups, id)
    IN  FlatMap(Ups, frontier)

\* the pivot of one root's list into rows (networkID, network)
NetworkRows(root, members, type) ==
    LET Row(m) == [networkID |-> root, network |-> m, type |-> type]
    IN  Map(Row, members)

\* flowlines.join(network_df, how="inner"): a row per flowline and per
\* network row indexed on its lineID
JoinFlowlines(F, rows) ==
    LET RowsOf(f) ==
            LET Mine(r) == r.network = f.lineID
                Row(r) == [lineID |-> f.lineID, length |-> f.length,
                           networkID |-> r.networkID, type |-> r.type]
            IN  Map(Row, SelectSeq(rows, Mine))
    IN  FlatMap(RowsOf, F)

\* the roots in the order they are traversed: origins, then barrier segments
AllRoots == root_ids \o barrier_segments

\* the segments a traversal can meet
SegmentIds(J) ==
    {J[i].upstream_id : i \in DOMAIN J} \cup {J[i].downstream_id : i \in DOMAIN J}

(***************************************************************************)
(* custom/sarp/stats.py and network_analysis.py 266-309: network           *)
(* statistics and the metrics of every barrier.                            *)
(***************************************************************************)
\* stats.py 88 converts metres to miles with the factor 0.000621371; miles
\* are kept here in billionths of a mile, so that the factor is whole
NanoMilesPerMetre == 621371

RECURSIVE SumLength(_)
SumLength(rows) ==
    IF rows = <<>> THEN 0 ELSE Head(rows).length + SumLength(Tail(rows))

\* calculate_network_stats: networkID -> miles of the rows of the network
NetworkStats(ndf) ==
    [id \in {ndf[n].networkID : n \in DOMAIN ndf} |->
        LET Of(r) == r.networkID = id
        IN  [miles |-> SumLength(SelectSeq(ndf, Of)) * NanoMilesPerMetre]]

\* .join(network_stats, on=...): the miles of network `id`, NaN without one
MilesOf(stats, id) == IF id \in DOMAIN stats THEN stats[id].miles ELSE NaN

\* upstream_networks: the barriers left-joined to the upstream_id of their
\* barrier joins, then to the statistics of the network of that id
UpstreamNetworks(B, BJ, stats) ==
    LET RowsOf(b) ==
            LET Mine(j) == j.barrierID = b.barrierID
                Row(j) == [barrierID |-> b.barrierID, upNetID |-> j.upstream_id,
                           UpstreamMiles |-> MilesOf(stats, j.upstream_id)]
                found == SelectSeq(BJ, Mine)
            IN  IF found = <<>>
                THEN <<[barrierID |-> b.barrierID, upNetID |-> NaN,
                        UpstreamMiles |-> NaN]>>
                ELSE Map(Row, found)
    IN  FlatMap(RowsOf, B)

\* downstream_networks: the barrier joins left-joined on downstream_id to
\* the network of that flowline, then to the statistics of that network
DownstreamNetworks(BJ, ndf, stats) ==
    LET RowsOf(j) ==
            LET Mine(r) == r.lineID = j.downstream_id
                Row(r) == [barrierID |-> j.barrierID, downNetID |-> r.networkID,
                           DownstreamMiles |-> MilesOf(stats, r.networkID)]
                found == SelectSeq(ndf, Mine)
            IN  IF found = <<>>
                THEN <<[barrierID |-> j.barrierID, downNetID |-> NaN,
                        DownstreamMiles |-> NaN]>>
                ELSE Map(Row, found)
    IN  FlatMap(RowsOf, BJ)

\* MinSkipNaN that takes the larger of the two sides
MinSkipNaN_Larger(a, b) ==
    IF a = NaN THEN b ELSE IF b = NaN THEN a ELSE IF a >= b THEN a ELSE b

\* DataFrame.min(axis=1): the smallest value that is not NaN
MinSkipNaN(a, b) ==
    IF a = NaN THEN b ELSE IF b = NaN THEN a ELSE IF a <= b THEN a ELSE b

\* fillna(0)
FillNa(x) == IF x = NaN THEN 0 ELSE x

\* barrier_networks of network_analysis.py 297-304: upstream_networks joined
\* to downstream_networks on the barrier, the gain, the ids with 0 for NaN
BarrierNetworks(B, BJ, ndf) ==
    LET stats == NetworkStats(ndf)
        down == DownstreamNetworks(BJ, ndf, stats)
        RowsOf(u) ==
            LET Mine(d) == d.barrierID = u.barrierID
                Row(d) == [barrierID |-> u.barrierID,
                           upNetID |-> FillNa(u.upNetID),
                           UpstreamMiles |-> u.UpstreamMiles,
                           downNetID |-> FillNa(d.downNetID),
                           DownstreamMiles |-> d.DownstreamMiles,
                           AbsoluteGainMi |->
                               MinSkipNaN(u.UpstreamMiles, d.DownstreamMiles)]
                found == SelectSeq(down, Mine)
            IN  IF found = <<>>
                THEN <<[barrierID |-> u.barrierID, upNetID |-> FillNa(u.upNetID),
                        UpstreamMiles |-> u.UpstreamMiles, downNetID |-> 0,
                        DownstreamMiles |-> NaN,
                        AbsoluteGainMi |-> u.UpstreamMiles]>>
                ELSE Map(Row, found)
    IN  FlatMap(RowsOf, UpstreamNetworks(B, BJ, stats))

(***************************************************************************)
(* Inputs.                                                                 *)
(***************************************************************************)
Flowline(l) ==
    [lineID |-> l, NHDPlusID |-> 100 + l, geometry |-> Line(0, MaxLen),
     length |-> MaxLen]

NHDPlusIDOf(l) == IF l = 0 THEN 0 ELSE 100 + l

\* a row of the joins table as extract_flowlines types it
Join(u, d) ==
    [upstream_id |-> u, downstream_id |-> d,
     upstream |-> NHDPlusIDOf(u), downstream |-> NHDPlusIDOf(d),
     type |-> IF u = 0 THEN "origin" ELSE IF d = 0 THEN "terminal" ELSE "internal"]

JoinPairs ==
    {p \in (0..NumLines) \X (0..NumLines) : p[1] # p[2]}

RECURSIVE PairsToJoins(_)
PairsToJoins(S) ==
    IF S = {} THEN <<>>
    ELSE LET p == CHOOSE x \in S : \A y \in S :
                    \/ x[2] < y[2]
                    \/ x[2] = y[2] /\ x[1] <= y[1]
         IN  <<Join(p[1], p[2])>> \o PairsToJoins(S \ {p})

JoinTables ==
    {PairsToJoins(S) : S \in {T \in SUBSET JoinPairs : Cardinality(T) <= MaxJoins}}

\* a lineID that no flowline of F has: a barrier snapped to a line that is
\* not part of the region's flowlines
OffNetwork == NumLines + 1

\* where a barrier can be: at a whole metre of a flowline of F, or on the
\* line that F does not hold
BarrierPlaces ==
    ((1..NumLines) \X (0..MaxLen)) \cup {<<OffNetwork, 0>>}

BarrierTables ==
    UNION {
        {[i \in 1..n |-> [barrierID |-> 9 + i, lineID |-> f[i][1], pos |-> f[i][2]]] :
            f \in [1..n -> BarrierPlaces]} : n \in 0..MaxBarriers}

\* before the second cut: no barriers given, nothing returned
NotRecut == [barriers |-> <<>>, flowlines |-> <<>>, joins |-> <<>>,
             barrier_joins |-> <<>>]

Init ==
    /\ pc = "start"
    /\ flowlines = [l \in 1..NumLines |-> Flowline(l)]
    /\ joins \in JoinTables
    /\ barriers \in BarrierTables
    /\ Len(joins) + Len(barriers) <= MaxRows
    /\ next_segment_id = None
    /\ updated_flowlines = <<>>
    /\ updated_joins = <<>>
    /\ barrier_joins = <<>>
    /\ barrier_segments = <<>>
    /\ upstreams = <<>>
    /\ root_ids = <<>>
    /\ ri = 0
    /\ ids = <<>>
    /\ network = <<>>
    /\ iterations = 0
    /\ origin_networks = <<>>
    /\ barrier_networks = <<>>
    /\ network_df = <<>>
    /\ barrier_network_csv = <<>>
    /\ recut = NotRecut
    /\ df = <<>>
    /\ args = <<>>
    /\ ret = <<>>

(***************************************************************************)
(* The steps of the processing script.                                     *)
(***************************************************************************)
\* no barrier splits a line: `grouped` is an empty frame
NoSplit(F, B) == SplitSegments(BarrierSegments(F, B)) = <<>>

\* network_analysis.py 149-157: cut_flowlines, then the ids of the barrier
\* joins cast to uint32 (pandas raises on NaN).  When `grouped` is empty,
\* grouped.barrierID.apply(pd.Series) keeps the empty Series, which has no
\* stack(): whether cut_flowlines then raises or passes the empty frames
\* through rests on the pandas in use, so both outcomes are kept.
CutFlowlines ==
    /\ pc = "start"
    /\ LET r == cut_flowlines(flowlines, barriers, joins, next_segment_id) IN
       \/ /\ r.raised \/ NoSplit(flowlines, barriers)
          /\ pc' = "cut_raised"
          /\ UNCHANGED <<updated_flowlines, updated_joins, barrier_joins>>
       \/ /\ ~r.raised
          /\ updated_flowlines' = r.flowlines
          /\ updated_joins' = r.joins
          /\ barrier_joins' = r.barrier_joins
          /\ pc' = IF \E i \in DOMAIN r.barrier_joins :
                        NaN \in {r.barrier_joins[i].upstream_id,
                                 r.barrier_joins[i].downstream_id}
                   THEN "cast_raised" ELSE "cut"
    /\ UNCHANGED <<barrier_network_csv, recut, df>>
    /\ UNCHANGED <<args, ret>>
    /\ UNCHANGED <<flowlines, joins, barriers, next_segment_id, barrier_segments,
                   upstreams, root_ids, ri, ids, network, iterations,
                   origin_networks, barrier_networks, network_df>>

\* the call of generate_network for root number i, or the end of the
\* traversals when the roots are exhausted
CallNext(i, roots) ==
    /\ ri' = i
    /\ iterations' = 0
    /\ network' = <<>>
    /\ IF i <= Len(roots)
       THEN ids' = <<roots[i]>> /\ pc' = "generate_network"
       ELSE ids' = <<>> /\ pc' = "networks"

\* network_analysis.py 176-197: barrier segments, upstream index, origin
\* roots; then the first traversal starts
PrepareNetworks ==
    /\ pc = "cut"
    /\ barrier_segments' = BarrierSegmentIds(barrier_joins)
    /\ upstreams' = Upstreams(updated_joins, barrier_segments')
    /\ root_ids' = RootIds(updated_joins, barrier_segments')
    /\ CallNext(1, root_ids' \o barrier_segments')
    /\ UNCHANGED <<barrier_network_csv, recut, df>>
    /\ UNCHANGED <<args, ret>>
    /\ UNCHANGED <<flowlines, joins, barriers, next_segment_id, updated_flowlines,
                   updated_joins, barrier_joins, origin_networks, barrier_networks,
                   network_df>>

\* network.py 24-29: one iteration of generate_network's while loop.  A
\* traversal that has made more iterations than there are segments is on a
\* cycle and never leaves the loop.
GenerateNetworkLoop ==
    /\ pc = "generate_network"
    /\ ids # <<>>
    /\ IF iterations > Cardinality(SegmentIds(updated_joins))
       THEN /\ pc' = "diverged"
            /\ UNCHANGED <<ids, network, iterations>>
       ELSE /\ network' = network \o ids
            /\ ids' = UpstreamIdsOf(upstreams, ids)
            /\ iterations' = iterations + 1
            /\ pc' = pc
    /\ UNCHANGED <<barrier_network_csv, recut, df>>
    /\ UNCHANGED <<args, ret>>
    /\ UNCHANGED <<flowlines, joins, barriers, next_segment_id, updated_flowlines,
                   updated_joins, barrier_joins, barrier_segments, upstreams,
                   root_ids, ri, origin_networks, barrier_networks, network_df>>

\* network.py 30 and network_analysis.py 205-242: the network is returned
\* and pivoted into rows; the next root is traversed
GenerateNetworkReturn ==
    /\ pc = "generate_network"
    /\ ids = <<>>
    /\ IF ri <= Len(root_ids)
       THEN /\ origin_networks' =
                origin_networks \o NetworkRows(AllRoots[ri], network, "origin")
            /\ UNCHANGED barrier_networks
       ELSE /\ barrier_networks' =
                barrier_networks \o NetworkRows(AllRoots[ri], network, "barrier")
            /\ UNCHANGED origin_networks
    /\ CallNext(ri + 1, AllRoots)
    /\ UNCHANGED <<barrier_network_csv, recut, df>>
    /\ UNCHANGED <<args, ret>>
    /\ UNCHANGED <<flowlines, joins, barriers, next_segment_id, updated_flowlines,
                   updated_joins, barrier_joins, barrier_segments, upstreams,
                   root_ids, network_df>>

\* network_analysis.py 246-248: the networks joined back to the flowlines
JoinNetworks ==
    /\ pc = "networks"
    /\ network_df' = JoinFlowlines(updated_flowlines,
                                   origin_networks \o barrier_networks)
    /\ pc' = "done"
    /\ UNCHANGED <<barrier_network_csv, recut, df>>
    /\ UNCHANGED <<args, ret>>
    /\ UNCHANGED <<flowlines, joins, barriers, next_segment_id, updated_flowlines,
                   updated_joins, barrier_joins, barrier_segments, upstreams,
                   root_ids, ri, ids, network, iterations, origin_networks,
                   barrier_networks>>

\* network_analysis.py 269-309: the statistics of the networks and the
\* metrics of every barrier
BarrierNetworkStats ==
    /\ pc = "done"
    /\ barrier_network_csv' = BarrierNetworks(barriers, barrier_joins, network_df)
    /\ pc' = "stats"
    /\ UNCHANGED <<args, ret>>
    /\ UNCHANGED <<flowlines, joins, barriers, next_segment_id, updated_flowlines,
                   updated_joins, barrier_joins, barrier_segments, upstreams,
                   root_ids, ri, ids, network, iterations, origin_networks,
                   barrier_networks, network_df, recut, df>>

\* the flowlines of F' that pass through the place of barrier b: the
\* sub-segments of its line that begin or end at the barrier, or its line
\* itself when it was not split
ResnapLines(b, F, F2) ==
    IF b.lineID \notin LineIDs(F) THEN {b.lineID}
    ELSE {F2[n].lineID : n \in
            {m \in DOMAIN F2 :
                /\ F2[m].NHDPlusID = FlowlineOf(F, b.lineID).NHDPlusID
                /\ F2[m].geometry.start <= b.pos
                /\ b.pos <= F2[m].geometry.end}}

\* the barrier tables that assign every barrier of B to a flowline of F2
\* passing through its place
RECURSIVE Resnapped(_, _, _)
Resnapped(B, F, F2) ==
    IF B = <<>> THEN {<<>>}
    ELSE {<<[Head(B) EXCEPT !.lineID = l]>> \o rest :
            l \in ResnapLines(Head(B), F, F2), rest \in Resnapped(Tail(B), F, F2)}

\* cut_flowlines run again on its own output (F', J') with the same
\* barriers, each now assigned to a flowline of F'; as in the first run an
\* empty `grouped` either raises or passes the frames through
CutAgain ==
    /\ pc = "cut"
    /\ \E B2 \in Resnapped(barriers, flowlines, updated_flowlines) :
          LET r == cut_flowlines(updated_flowlines, B2, updated_joins, None) IN
          \/ /\ r.raised \/ NoSplit(updated_flowlines, B2)
             /\ pc' = "recut_raised"
             /\ recut' = [NotRecut EXCEPT !.barriers = B2]
          \/ /\ ~r.raised
             /\ pc' = "recut"
             /\ recut' = [barriers |-> B2, flowlines |-> r.flowlines,
                          joins |-> r.joins, barrier_joins |-> r.barrier_joins]
    /\ UNCHANGED <<args, ret>>
    /\ UNCHANGED <<flowlines, joins, barriers, next_segment_id, updated_flowlines,
                   updated_joins, barrier_joins, barrier_segments, upstreams,
                   root_ids, ri, ids, network, iterations, origin_networks,
                   barrier_networks, network_df, barrier_network_csv, df>>

Next ==
    \/ CutFlowlines
    \/ CutAgain
    \/ PrepareNetworks
    \/ GenerateNetworkLoop
    \/ GenerateNetworkReturn
    \/ JoinNetworks
    \/ BarrierNetworkStats

Spec == Init /\ [][Next]_vars

(***************************************************************************)
(* The core operations called one at a time on a caller's tables:          *)
(* cut_flowlines, update_joins (cut.py), remove_joins (joins.py) and       *)
(* generate_networks (network.py).                                         *)
(***************************************************************************)
\* drop_duplicates(): the first of every run of equal rows is kept
RECURSIVE DropDuplicates(_)
DropDuplicates(s) ==
    IF s = <<>> THEN <<>>
    ELSE LET init == DropDuplicates(SubSeq(s, 1, Len(s) - 1))
         IN  IF s[Len(s)] \in Range(init) THEN init ELSE Append(init, s[Len(s)])

\* remove_joins(df, ids) on the columns upstream_id and downstream_id: the
\* frame `df` as the two df.loc[ix, col] = 0 leave it, and the frame returned
remove_joins(J, idset) ==
    LET up == {J[k].upstream_id : k \in
                 {n \in DOMAIN J : J[n].downstream_id \in idset /\ J[n].upstream_id # 0}}
        up_other == {J[k].upstream_id : k \in
                 {n \in DOMAIN J : J[n].upstream_id \in up /\ J[n].downstream_id \notin idset}}
        up_terminals == up \ up_other
        J1 == [k \in DOMAIN J |->
                 IF J[k].upstream_id \in up_terminals
                 THEN [J[k] EXCEPT !.downstream_id = 0] ELSE J[k]]
        down == {J1[k].downstream_id : k \in
                 {n \in DOMAIN J1 : J1[n].upstream_id \in idset /\ J1[n].downstream_id # 0}}
        down_other == {J1[k].downstream_id : k \in
                 {n \in DOMAIN J1 : J1[n].downstream_id \in down /\ J1[n].upstream_id \notin idset}}
        down_terminals == down \ down_other
        J2 == [k \in DOMAIN J1 |->
                 IF J1[k].downstream_id \in down_terminals
                 THEN [J1[k] EXCEPT !.upstream_id = 0] ELSE J1[k]]
        Kept(j) == ~(j.upstream_id \in idset \/ j.downstream_id \in idset)
    IN  [df |-> J2, result |-> DropDuplicates(SelectSeq(J2, Kept))]

\* generate_network(root_id, upstreams) as a function: the list of ids, or
\* diverged when the loop has made `fuel` iterations without emptying ids
RECURSIVE generate_network(_, _, _, _)
generate_network(frontier, found, ups, fuel) ==
    IF frontier = <<>> THEN [diverged |-> FALSE, network |-> found]
    ELSE IF fuel = 0 THEN [diverged |-> TRUE, network |-> <<>>]
    ELSE generate_network(UpstreamIdsOf(ups, frontier), found \o frontier, ups, fuel - 1)

\* generate_networks(df, upstreams): df["network"] = ... adds the column to
\* the frame it was given; the pivot of that frame is returned
generate_networks(roots, ups, fuel) ==
    LET Net(r) == generate_network(<<r.upstream_id>>, <<>>, ups, fuel)
        WithNetwork(r) == [upstream_id |-> r.upstream_id, network |-> Net(r).network]
        Pivot(r) == NetworkRows(r.upstream_id, r.network, "origin")
        after == Map(WithNetwork, roots)
    IN  [diverged |-> \E n \in DOMAIN roots : Net(roots[n]).diverged,
         df |-> after, result |-> FlatMap(Pivot, after)]

\* a caller's frame of roots: one row per origin root of J
RootsFrame(J) ==
    LET Row(u) == [upstream_id |-> u] IN Map(Row, RootIds(J, <<>>))

\* the caller's tables before any operation is called
InitLibrary ==
    /\ pc = "start"
    /\ flowlines = [l \in 1..NumLines |-> Flowline(l)]
    /\ joins \in JoinTables
    /\ barriers \in BarrierTables
    /\ Len(barriers) <= 1
    /\ next_segment_id = None
    /\ updated_flowlines = <<>>
    /\ updated_joins = <<>>
    /\ barrier_joins = <<>>
    /\ barrier_segments = <<>>
    /\ upstreams = Upstreams(joins, <<>>)
    /\ root_ids = <<>>
    /\ ri = 0
    /\ ids = <<>>
    /\ network = <<>>
    /\ iterations = 0
    /\ origin_networks = <<>>
    /\ barrier_networks = <<>>
    /\ network_df = <<>>
    /\ barrier_network_csv = <<>>
    /\ recut = NotRecut
    /\ df = RootsFrame(joins)
    /\ args = <<>>
    /\ ret = <<>>

\* joins.py 132-183: remove_joins(joins, ids)
RemoveJoins ==
    /\ pc = "start"
    /\ \E idset \in SUBSET LineIDs(flowlines) :
          /\ idset # {}
          /\ joins' = remove_joins(joins, idset).df
          /\ updated_joins' = remove_joins(joins, idset).result
    /\ pc' = "remove_joins"
    /\ UNCHANGED <<args, ret>>
    /\ UNCHANGED <<flowlines, barriers, next_segment_id, updated_flowlines,
                   barrier_joins, barrier_segments, upstreams, root_ids, ri, ids,
                   network, iterations, origin_networks, barrier_networks,
                   network_df, barrier_network_csv, recut, df>>

\* cut.py 19-49: update_joins(joins, new_downstreams, new_upstreams) for a
\* line l replaced by two new segments
UpdateJoins ==
    /\ pc = "start"
    /\ \E l \in LineIDs(flowlines) :
          updated_joins' = update_joins(joins, l :> NextSegmentId(flowlines, None),
                                        l :> NextSegmentId(flowlines, None) + 1)
    /\ pc' = "update_joins"
    /\ UNCHANGED <<args, ret>>
    /\ UNCHANGED <<flowlines, joins, barriers, next_segment_id, updated_flowlines,
                   barrier_joins, barrier_segments, upstreams, root_ids, ri, ids,
                   network, iterations, origin_networks, barrier_networks,
                   network_df, barrier_network_csv, recut, df>>

\* network.py 33-65: generate_networks(df, upstreams); on a cyclic index
\* generate_network never returns
GenerateNetworks ==
    /\ pc = "start"
    /\ LET r == generate_networks(df, upstreams,
                                  Cardinality(SegmentIds(joins)) + 1) IN
       IF r.diverged
       THEN pc' = "diverged" /\ UNCHANGED <<df, origin_networks>>
       ELSE /\ df' = r.df
            /\ origin_networks' = r.result
            /\ pc' = "generate_networks"
    /\ UNCHANGED <<args, ret>>
    /\ UNCHANGED <<flowlines, joins, barriers, next_segment_id, updated_flowlines,
                   updated_joins, barrier_joins, barrier_segments, upstreams,
                   root_ids, ri, ids, network, iterations, barrier_networks,
                   network_df, barrier_network_csv, recut>>

NextLibrary ==
    \/ CutFlowlines
    \/ UpdateJoins
    \/ RemoveJoins
    \/ GenerateNetworks

SpecLibrary == InitLibrary /\ [][NextLibrary]_vars

(***************************************************************************)
(* What the claims speak of, stated on the inputs alone.                   *)
(***************************************************************************)
\* cut_flowlines has just returned F', J' and BJ, which no later step changes
Returned == pc \in {"cut", "cast_raised"}

BarrierSet == Range(barriers)

\* the barrier lies on a flowline of F
OnALine(b) == b.lineID \in LineIDs(flowlines)

\* distance of the barrier from the upstream end of its line
PosOnLine(b) == Project(FlowlineOf(flowlines, b.lineID).geometry, b.pos)

LengthOfLine(b) == GeomLength(FlowlineOf(flowlines, b.lineID).geometry)

AtUpstreamEnd(b) == OnALine(b) /\ PosOnLine(b) <= 1

AtDownstreamEnd(b) == OnALine(b) /\ PosOnLine(b) >= LengthOfLine(b) - 1

IsInterior(b) == OnALine(b) /\ ~AtUpstreamEnd(b) /\ ~AtDownstreamEnd(b)

InteriorOn(l) == {b \in BarrierSet : IsInterior(b) /\ b.lineID = l}

\* k: the number of interior-split barriers of line l
SplitCount(l) == Cardinality(InteriorOn(l))

SplitLines == {l \in LineIDs(flowlines) : SplitCount(l) >= 1}

InteriorTotal == Cardinality({b \in BarrierSet : IsInterior(b)})

RECURSIVE SumSubSegments(_)
SumSubSegments(lines) ==
    IF lines = {} THEN 0
    ELSE LET l == CHOOSE x \in lines : TRUE
         IN  SplitCount(l) + 1 + SumSubSegments(lines \ {l})

\* lineID of sub-segment i (0 = upstream-most) of split line l when ids are
\* allocated from max(lineID) + 1, split lines taken in lineID order
Sub(l, i) ==
    Max(LineIDs(flowlines)) + 1
    + SumSubSegments({m \in SplitLines : m < l}) + i

\* rank of an interior barrier among those of its line, by position
Rank(b) == Cardinality({c \in InteriorOn(b.lineID) : c.pos < b.pos})

\* the rows of a table that satisfy P, as a set of row numbers
RowsOfBarrier(b) ==
    {k \in DOMAIN barrier_joins : barrier_joins[k].barrierID = b.barrierID}

HasJoin(J, u, d) ==
    \E k \in DOMAIN J : J[k].upstream_id = u /\ J[k].downstream_id = d

\* C1: every interior split barrier has exactly one row (b, u, d) in the
\* returned barrier joins, u and d are lineIDs of F', and J' has a join row
\* (u, d).
C1_InteriorSplitHasOneJoinedRow ==
    Returned =>
        \A b \in BarrierSet : IsInterior(b) =>
            /\ Cardinality(RowsOfBarrier(b)) = 1
            /\ \A k \in RowsOfBarrier(b) :
                 /\ barrier_joins[k].upstream_id \in LineIDs(updated_flowlines)
                 /\ barrier_joins[k].downstream_id \in LineIDs(updated_flowlines)
                 /\ HasJoin(updated_joins, barrier_joins[k].upstream_id,
                            barrier_joins[k].downstream_id)

\* C1 witness: cut_flowlines returned for two interior splits of one line
C1_Witness ==
    /\ Returned
    /\ \E b, c \in BarrierSet :
         /\ b # c /\ b.lineID = c.lineID
         /\ IsInterior(b) /\ IsInterior(c)

\* C2: every id of the returned barrier joins is 0 (or missing) or the
\* lineID of a flowline of F', also for an endpoint barrier whose line or
\* neighbour line is split in the same call.
C2_BarrierJoinIdsInFlowlines ==
    Returned =>
        \A k \in DOMAIN barrier_joins :
            /\ barrier_joins[k].upstream_id
                   \in {0, NaN} \cup LineIDs(updated_flowlines)
            /\ barrier_joins[k].downstream_id
                   \in {0, NaN} \cup LineIDs(updated_flowlines)

\* every nonzero id of the input joins is a lineID of F
JoinsNameFlowlines ==
    \A k \in DOMAIN joins :
        {joins[k].upstream_id, joins[k].downstream_id}
            \subseteq {0} \cup LineIDs(flowlines)

\* C3: when the input joins name only flowlines of F, every id of the
\* rewired joins J' is 0 or the lineID of a flowline of F'.
C3_RewiredJoinIdsInFlowlines ==
    (Returned /\ JoinsNameFlowlines) =>
        \A k \in DOMAIN updated_joins :
            {updated_joins[k].upstream_id, updated_joins[k].downstream_id}
                \subseteq {0} \cup LineIDs(updated_flowlines)

\* C3 witness: a line named on both sides by the input joins was split
C3_Witness ==
    /\ Returned /\ JoinsNameFlowlines
    /\ \E l \in SplitLines :
         /\ \E k \in DOMAIN joins : joins[k].upstream_id = l
         /\ \E k \in DOMAIN joins : joins[k].downstream_id = l

\* the input join row as the claim says it is returned
Rewired(j) ==
    [j EXCEPT
        !.downstream_id = IF @ \in SplitLines THEN Sub(@, 0) ELSE @,
        !.upstream_id = IF @ \in SplitLines THEN Sub(@, SplitCount(@)) ELSE @]

\* C4: every input join row is returned once, its downstream_id replaced by
\* the upstream-most sub-segment when that line was split, its upstream_id
\* by the downstream-most sub-segment, and otherwise unchanged.
C4_JoinsRewiredToEndSegments ==
    Returned =>
        /\ \A i \in DOMAIN joins :
              Cardinality({k \in DOMAIN updated_joins :
                              updated_joins[k] = Rewired(joins[i])}) = 1
        /\ Len(updated_joins) = Len(joins) + InteriorTotal

\* C4 witness: joins into a split line, out of a split line and clear of it
C4_Witness ==
    /\ Returned
    /\ \E k \in DOMAIN joins : joins[k].downstream_id \in SplitLines
    /\ \E k \in DOMAIN joins : joins[k].upstream_id \in SplitLines
    /\ \E k \in DOMAIN joins :
         /\ joins[k].downstream_id \notin SplitLines
         /\ joins[k].upstream_id \notin SplitLines

\* position of the cut of rank r of line l
CutPos(l, r) == (CHOOSE b \in InteriorOn(l) : Rank(b) = r).pos

\* geometry the claim gives to sub-segment i of line l
SubGeometry(l, i) ==
    LET g == FlowlineOf(flowlines, l).geometry
    IN  Line(IF i = 0 THEN g.start ELSE CutPos(l, i - 1),
             IF i = SplitCount(l) THEN g.end ELSE CutPos(l, i))

CountJoins(J, u, d) ==
    Cardinality({k \in DOMAIN J : J[k].upstream_id = u /\ J[k].downstream_id = d})

\* C9: a line with k >= 1 interior splits is replaced in F' by k+1
\* sub-segments with consecutive new lineIDs in upstream-to-downstream
\* order, J' gains the k joins between consecutive sub-segments, and the
\* barrier of rank i has the barrier-join row (sub[i], sub[i+1]).
C9_SplitIntoConsecutiveSegments ==
    Returned =>
        /\ \A l \in SplitLines :
             LET k == SplitCount(l)
                 orig == FlowlineOf(flowlines, l)
             IN  /\ l \notin LineIDs(updated_flowlines)
                 /\ Cardinality({n \in DOMAIN updated_flowlines :
                        updated_flowlines[n].NHDPlusID = orig.NHDPlusID}) = k + 1
                 /\ \A i \in 0..k :
                      Cardinality({n \in DOMAIN updated_flowlines :
                          /\ updated_flowlines[n].lineID = Sub(l, i)
                          /\ updated_flowlines[n].NHDPlusID = orig.NHDPlusID
                          /\ updated_flowlines[n].geometry = SubGeometry(l, i)}) = 1
                 /\ \A i \in 0..(k - 1) :
                      CountJoins(updated_joins, Sub(l, i), Sub(l, i + 1)) = 1
                 /\ \A b \in InteriorOn(l) :
                      \A n \in RowsOfBarrier(b) :
                          /\ barrier_joins[n].upstream_id = Sub(l, Rank(b))
                          /\ barrier_joins[n].downstream_id = Sub(l, Rank(b) + 1)
        /\ Len(updated_joins) = Len(joins) + InteriorTotal
        /\ Len(updated_flowlines) = Len(flowlines) + InteriorTotal

\* C9 witness: a line cut by two barriers listed downstream one first
C9_Witness ==
    /\ Returned
    /\ Len(barriers) = 2
    /\ barriers[1].lineID = barriers[2].lineID
    /\ IsInterior(barriers[1]) /\ IsInterior(barriers[2])
    /\ barriers[1].pos > barriers[2].pos

\* the join rows of J whose downstream_id is l, in row order
JoinsInto(l) ==
    LET Into(j) == j.downstream_id = l IN SelectSeq(joins, Into)

\* the rows of the returned barrier joins for barrier b, in row order
BarrierJoinsOf(b) ==
    LET Mine(r) == r.barrierID = b.barrierID IN SelectSeq(barrier_joins, Mine)

\* C10: a barrier within EPS of the upstream end of its line l (and not of
\* its downstream end) has one barrier-join row per input join into l,
\* (barrier, that join's upstream_id, l); endpoint barriers add no flowline
\* and no join: only interior splits do.
C10_UpstreamEndpointRows ==
    Returned =>
        /\ \A b \in BarrierSet :
             (AtUpstreamEnd(b) /\ ~AtDownstreamEnd(b) /\ JoinsInto(b.lineID) # <<>>) =>
                 BarrierJoinsOf(b) =
                     [n \in DOMAIN JoinsInto(b.lineID) |->
                         [barrierID |-> b.barrierID,
                          upstream_id |-> JoinsInto(b.lineID)[n].upstream_id,
                          downstream_id |-> b.lineID]]
        /\ Len(updated_flowlines) = Len(flowlines) + InteriorTotal
        /\ Len(updated_joins) = Len(joins) + InteriorTotal
        /\ SplitLines = LineIDs(flowlines) \ LineIDs(updated_flowlines)

\* C10 witness: a barrier on the upstream end of a line below a confluence
C10_Witness ==
    /\ Returned
    /\ \E b \in BarrierSet :
         /\ AtUpstreamEnd(b)
         /\ Len(JoinsInto(b.lineID)) = 2
         /\ Len(BarrierJoinsOf(b)) = 2
         /\ \A n \in 1..2 : JoinsInto(b.lineID)[n].upstream_id # 0

(***************************************************************************)
(* Networks.                                                               *)
(***************************************************************************)
\* every traversal has returned
NetworksBuilt == pc = "networks"

AllNetworkRows == Range(origin_networks \o barrier_networks)

\* the members emitted for the network of root r
MembersOf(r) == {row.network : row \in {x \in AllNetworkRows : x.networkID = r}}

\* S: the nonzero upstream_ids of the barrier joins
BarrierSegmentSet ==
    {barrier_joins[k].upstream_id : k \in DOMAIN barrier_joins} \ {0}

\* the segments with a chain of joins of J' into `set`, all ends nonzero,
\* none of whose upstream segments is a barrier segment
RECURSIVE UpstreamClosure(_)
UpstreamClosure(set) ==
    LET more == {updated_joins[k].upstream_id : k \in
                    {n \in DOMAIN updated_joins :
                        /\ updated_joins[n].upstream_id # 0
                        /\ updated_joins[n].downstream_id # 0
                        /\ updated_joins[n].downstream_id \in set
                        /\ updated_joins[n].upstream_id \notin BarrierSegmentSet}}
    IN  IF more \subseteq set THEN set ELSE UpstreamClosure(set \cup more)

\* C5: the network of every root r is r together with every segment that
\* reaches r over joins of J' with nonzero ends without passing a barrier
\* segment; a barrier segment is a member of its own network only.
C5_NetworkIsBarrierBoundedClosure ==
    NetworksBuilt =>
        /\ \A i \in DOMAIN AllRoots :
              MembersOf(AllRoots[i]) = UpstreamClosure({AllRoots[i]})
        /\ \A row \in AllNetworkRows :
              row.network \in BarrierSegmentSet => row.network = row.networkID

\* C5 witness: a network of two segments or more that stops below a barrier
\* segment
C5_Witness ==
    /\ NetworksBuilt
    /\ \E i \in DOMAIN AllRoots :
         LET r == AllRoots[i] IN
         /\ Cardinality(MembersOf(r)) >= 2
         /\ \E k \in DOMAIN updated_joins :
              /\ updated_joins[k].upstream_id \in BarrierSegmentSet
              /\ updated_joins[k].downstream_id \in MembersOf(r)
              /\ updated_joins[k].upstream_id \notin MembersOf(r)

\* C6: after network building every lineID of F' belongs to at most one
\* network.
C6_AtMostOneNetwork ==
    pc = "done" =>
        \A l \in LineIDs(updated_flowlines) :
            Cardinality({network_df[n].networkID : n \in
                {m \in DOMAIN network_df : network_df[m].lineID = l}}) <= 1

\* C7: generate_network leaves its while loop on every upstream index: no
\* traversal makes more iterations than there are segments.
C7_GenerateNetworkTerminates == pc # "diverged"

\* C8: after a line that J gives an origin row (0, l) was cut at an interior
\* barrier and the networks were built, every lineID of F' that J' names is
\* a member of some network, the sub-segment below the barrier included.
C8_EverySegmentInANetwork ==
    (/\ pc = "done"
     /\ InteriorTotal >= 1
     /\ \A l \in SplitLines : HasJoin(joins, 0, l)) =>
        \A l \in LineIDs(updated_flowlines) \cap SegmentIds(updated_joins) :
            \E n \in DOMAIN network_df : network_df[n].lineID = l

(***************************************************************************)
(* Endpoint barriers without a neighbour, coincident barriers, the rows    *)
(* of new joins, lines that are not split.                                 *)
(***************************************************************************)
\* the join rows of J whose upstream_id is l, in row order
JoinsOutOf(l) ==
    LET OutOf(j) == j.upstream_id = l IN SelectSeq(joins, OutOf)

\* J names no segment upstream of l: it has no row into l, or only (0, l)
NoUpstreamNeighbour(l) ==
    \A n \in DOMAIN JoinsInto(l) : JoinsInto(l)[n].upstream_id = 0

\* J names no segment downstream of l: it has no row out of l, or only (l, 0)
NoDownstreamNeighbour(l) ==
    \A n \in DOMAIN JoinsOutOf(l) : JoinsOutOf(l)[n].downstream_id = 0

\* C11: an endpoint barrier whose line has no neighbour on the barrier's
\* side has exactly one barrier-join row, with 0 on that side, whether J has
\* a row with 0 on that side or no row at all for the line on that side.
C11_EndpointWithoutNeighbourHasSentinel ==
    Returned =>
        \A b \in BarrierSet :
            /\ (AtUpstreamEnd(b) /\ ~AtDownstreamEnd(b)
                    /\ NoUpstreamNeighbour(b.lineID)) =>
                  BarrierJoinsOf(b) =
                      <<[barrierID |-> b.barrierID, upstream_id |-> 0,
                         downstream_id |-> b.lineID]>>
            /\ (AtDownstreamEnd(b) /\ ~AtUpstreamEnd(b)
                    /\ NoDownstreamNeighbour(b.lineID)) =>
                  BarrierJoinsOf(b) =
                      <<[barrierID |-> b.barrierID, upstream_id |-> b.lineID,
                         downstream_id |-> 0]>>

\* two interior barriers of one line at the same position
Coincident(b, c) ==
    /\ b # c /\ b.lineID = c.lineID /\ b.pos = c.pos
    /\ IsInterior(b) /\ IsInterior(c)

HasCoincident == \E b, c \in BarrierSet : Coincident(b, c)

\* the one row of the returned barrier joins for barrier b
RowOfBarrier(b) == barrier_joins[CHOOSE k \in RowsOfBarrier(b) : TRUE]

\* C12: with interior barriers of one line at the same position,
\* cut_flowlines returns; every barrier makes its own cut (k + 1 sub-segments
\* and k barrier-join rows for k barriers), the coincident ones in
\* barrier id order.
C12_CoincidentBarriersEachCut ==
    (pc # "start" /\ HasCoincident) =>
        /\ Returned
        /\ Len(updated_flowlines) = Len(flowlines) + InteriorTotal
        /\ \A b \in BarrierSet : IsInterior(b) => Cardinality(RowsOfBarrier(b)) = 1
        /\ \A b, c \in BarrierSet :
              (Coincident(b, c) /\ b.barrierID < c.barrierID) =>
                  RowOfBarrier(b).downstream_id = RowOfBarrier(c).upstream_id

\* C13: the join row inserted between consecutive sub-segments of a split
\* line l is of type internal in J' and has l's NHDPlusID as its upstream
\* and its downstream.
C13_NewJoinsAreInternal ==
    Returned =>
        \A l \in SplitLines : \A i \in 0..(SplitCount(l) - 1) :
            \A k \in DOMAIN updated_joins :
                (/\ updated_joins[k].upstream_id = Sub(l, i)
                 /\ updated_joins[k].downstream_id = Sub(l, i + 1)) =>
                    /\ updated_joins[k].type = "internal"
                    /\ updated_joins[k].upstream = FlowlineOf(flowlines, l).NHDPlusID
                    /\ updated_joins[k].downstream = FlowlineOf(flowlines, l).NHDPlusID

\* C14: a flowline with no interior-split barrier is in F' as it was in F;
\* and when no barrier is an interior split, cut_flowlines returns F' = F
\* and J' = J as sets of rows.
C14_UnsplitLinesPassThrough ==
    /\ Returned =>
          \A n \in DOMAIN flowlines :
              flowlines[n].lineID \notin SplitLines =>
                  Cardinality({m \in DOMAIN updated_flowlines :
                                  updated_flowlines[m] = flowlines[n]}) = 1
    /\ (pc # "start" /\ InteriorTotal = 0) =>
          /\ Returned
          /\ Range(updated_flowlines) = Range(flowlines)
          /\ Range(updated_joins) = Range(joins)

\* the rows of F' that are not rows of F: the newly created segments
NewFlowlineRows ==
    {m \in DOMAIN updated_flowlines : updated_flowlines[m] \notin Range(flowlines)}

\* C16: with next_segment_id omitted, the lineIDs of F' are pairwise
\* distinct, none is 0, and every newly allocated lineID is greater than
\* every lineID of F.
C16_DefaultIdsAreFresh ==
    (Returned /\ next_segment_id = None) =>
        /\ \A m, n \in DOMAIN updated_flowlines :
              m # n => updated_flowlines[m].lineID # updated_flowlines[n].lineID
        /\ 0 \notin LineIDs(updated_flowlines)
        /\ \A m \in NewFlowlineRows :
              updated_flowlines[m].lineID > Max(LineIDs(flowlines))

\* C16 witness: two lines were split with the default next_segment_id, the
\* line of the largest lineID left whole
C16_Witness ==
    /\ Returned /\ next_segment_id = None
    /\ Cardinality(SplitLines) = 2
    /\ Max(LineIDs(flowlines)) \notin SplitLines
    /\ Cardinality(NewFlowlineRows) = 4

\* some barrier's lineID is the lineID of no flowline of F
HasStrayBarrier == \E b \in BarrierSet : ~OnALine(b)

\* C17: when a barrier's lineID is the lineID of no flowline of F,
\* cut_flowlines aborts: it returns no F', J', BJ for that input.
C17_StrayBarrierAborts ==
    (pc # "start" /\ HasStrayBarrier) => pc = "cut_raised"

\* the roots have been selected (network_analysis.py 176-197)
RootsSelected == pc \in {"generate_network", "networks", "done", "diverged"}

\* C19: the roots handed to the traversal, origin roots and barrier
\* segments together, hold no lineID twice, so each root gives one network
\* named by its own lineID.
C19_RootsAreDistinct ==
    RootsSelected =>
        \A i, j \in DOMAIN AllRoots : i # j => AllRoots[i] # AllRoots[j]

\* the rows of barrier_network.csv for barrier b, in row order
MetricsOf(b) ==
    LET Mine(r) == r.barrierID = b.barrierID
    IN  SelectSeq(barrier_network_csv, Mine)

\* C20: in the metrics of a barrier with one barrier-join row (b, u, d),
\* u = 0 gives upNetID = 0 and UpstreamMiles = 0, and d = 0 gives
\* downNetID = 0 and DownstreamMiles = 0.
C20_SentinelSideHasZeroMetrics ==
    pc = "stats" =>
        \A b \in BarrierSet :
            Len(BarrierJoinsOf(b)) = 1 =>
                LET j == BarrierJoinsOf(b)[1]
                    rows == MetricsOf(b)
                IN  /\ rows # <<>>
                    /\ j.upstream_id = 0 =>
                          \A n \in DOMAIN rows :
                              rows[n].upNetID = 0 /\ rows[n].UpstreamMiles = 0
                    /\ j.downstream_id = 0 =>
                          \A n \in DOMAIN rows :
                              rows[n].downNetID = 0 /\ rows[n].DownstreamMiles = 0

\* cut_flowlines was run a second time, on its own output
RanAgain == pc \in {"recut", "recut_raised"}

\* C15: cut_flowlines run again on its own output (F', J') with the
\* original barriers, which now lie on ends of sub-segments, finds no
\* interior split, creates no segment and no join, and returns F'' = F' and
\* J'' = J'.
C15_SecondCutIsNoOp ==
    RanAgain =>
        /\ NoSplit(updated_flowlines, recut.barriers)
        /\ pc = "recut"
        /\ Range(recut.flowlines) = Range(updated_flowlines)
        /\ Range(recut.joins) = Range(updated_joins)

\* C18: no core operation changes a table it was given: across the step of
\* cut_flowlines, update_joins, remove_joins or generate_networks the
\* caller's flowlines, joins, barriers and roots keep their rows, columns
\* and values.
C18_InputsNotMutated ==
    [][/\ flowlines' = flowlines
       /\ joins' = joins
       /\ barriers' = barriers
       /\ df' = df]_vars

(***************************************************************************)
(* Barrier metrics and members of one network.                             *)
(***************************************************************************)
RECURSIVE SumOver(_, _)
SumOver(S, f) ==
    IF S = {} THEN 0
    ELSE LET x == CHOOSE y \in S : TRUE IN f[x] + SumOver(S \ {x}, f)

\* the miles (in billionths) of the rows that network_df holds for network id
MilesOfNetwork(id) ==
    NanoMilesPerMetre * SumOver({n \in DOMAIN network_df : network_df[n].networkID = id},
                     [n \in DOMAIN network_df |-> network_df[n].length])

NetworkIDs == {network_df[n].networkID : n \in DOMAIN network_df}

\* the smaller of the sides of a metrics row that are known
SmallerSide(r) ==
    LET known == {r.UpstreamMiles, r.DownstreamMiles} \ {NaN}
    IN  IF known = {} THEN NaN ELSE CHOOSE x \in known : \A y \in known : x <= y

C30_OneMetricsRowPerBarrierJoin ==
    pc = "stats" =>
        \A b \in BarrierSet :
            BarrierJoinsOf(b) # <<>> => Len(MetricsOf(b)) = Len(BarrierJoinsOf(b))

\* C27: the list that generate_network returns holds every member once.
C27_MembersEmittedOnce ==
    (pc = "generate_network" /\ ids = <<>>) =>
        \A i, j \in DOMAIN network : i # j => network[i] # network[j]

(***************************************************************************)
(* cut_flowlines on flowlines of every length from EPS to 2 * EPS + 1.     *)
(***************************************************************************)
FlowlineOfLength(l, n) ==
    [lineID |-> l, NHDPlusID |-> 100 + l, geometry |-> Line(0, n), length |-> n]

\* barrier tables whose barriers lie on their line (of length n) or on the
\* line that F does not hold
BarrierTablesOn(n) ==
    {B \in BarrierTables : \A i \in DOMAIN B : B[i].pos <= n}

InitShortLines ==
    /\ pc = "start"
    /\ \E n \in EPS..(2 * EPS + 1) :
          /\ flowlines = [l \in 1..NumLines |-> FlowlineOfLength(l, n)]
          /\ barriers \in BarrierTablesOn(n)
    /\ joins \in JoinTables
    /\ Len(joins) <= 2
    /\ next_segment_id = None
    /\ updated_flowlines = <<>>
    /\ updated_joins = <<>>
    /\ barrier_joins = <<>>
    /\ barrier_segments = <<>>
    /\ upstreams = <<>>
    /\ root_ids = <<>>
    /\ ri = 0
    /\ ids = <<>>
    /\ network = <<>>
    /\ iterations = 0
    /\ origin_networks = <<>>
    /\ barrier_networks = <<>>
    /\ network_df = <<>>
    /\ barrier_network_csv = <<>>
    /\ recut = NotRecut
    /\ df = <<>>
    /\ args = <<>>
    /\ ret = <<>>

NextShortLines == CutFlowlines

SpecShortLines == InitShortLines /\ [][NextShortLines]_vars

\* the barrier-join rows that place barrier b on the upstream end of its line
UpstreamEndpointRows(b) ==
    {k \in DOMAIN barrier_joins :
        /\ barrier_joins[k].barrierID = b.barrierID
        /\ barrier_joins[k].downstream_id = b.lineID}

\* the barrier-join rows that place barrier b on the downstream end of its line
DownstreamEndpointRows(b) ==
    {k \in DOMAIN barrier_joins :
        /\ barrier_joins[k].barrierID = b.barrierID
        /\ barrier_joins[k].upstream_id = b.lineID}

\* the barrier-join rows of barrier b between two new segments
InteriorRows(b) ==
    {k \in DOMAIN barrier_joins :
        /\ barrier_joins[k].barrierID = b.barrierID
        /\ barrier_joins[k].upstream_id \notin LineIDs(flowlines) \cup {0, NaN}
        /\ barrier_joins[k].downstream_id \notin LineIDs(flowlines) \cup {0, NaN}}

NotProcessed ==
    /\ flowlines = <<>>
    /\ joins = <<>>
    /\ barriers = <<>>
    /\ next_segment_id = None
    /\ updated_flowlines = <<>>
    /\ updated_joins = <<>>
    /\ barrier_joins = <<>>
    /\ barrier_segments = <<>>
    /\ upstreams = <<>>
    /\ root_ids = <<>>
    /\ ri = 0
    /\ ids = <<>>
    /\ network = <<>>
    /\ iterations = 0
    /\ origin_networks = <<>>
    /\ barrier_networks = <<>>
    /\ network_df = <<>>
    /\ barrier_network_csv = <<>>
    /\ recut = NotRecut
    /\ df = <<>>

\* a preparation function returns r; the script is then at `at`
Return(at, r) ==
    /\ ret' = r
    /\ pc' = at
    /\ UNCHANGED <<flowlines, joins, barriers, next_segment_id, updated_flowlines,
                   updated_joins, barrier_joins, barrier_segments, upstreams,
                   root_ids, ri, ids, network, iterations, origin_networks,
                   barrier_networks, network_df, barrier_network_csv, recut, df,
                   args>>

\* extract.py 146-155: the size class of a total drainage area (km2); a
\* flowline whose drainage area is missing gets none
SizeClass(drainage) ==
    IF drainage = NaN THEN NoType
    ELSE IF drainage < 10 THEN "1a"
    ELSE IF drainage < 100 THEN "1b"
    ELSE IF drainage < 518 THEN "2"
    ELSE IF drainage < 2590 THEN "3a"
    ELSE IF drainage < 10000 THEN "3b"
    ELSE IF drainage < 25000 THEN "4"
    ELSE "5"

\* drainage areas: one in every size class, and a missing one
Drainages == {NaN, 5, 50, 300, 1000, 5000, 20000, 30000}

MaxMembers == 3

\* network_df as calculate_network_stats reads it: members 1..n of networks
\* 1 and 2 with the size class of their drainage area
NetworkFrames ==
    UNION {
        {[i \in 1..n |-> [lineID |-> i, networkID |-> net[i],
                          sizeclass |-> SizeClass(da[i])]] :
            net \in [1..n -> 1..2], da \in [1..n -> Drainages]} : n \in 1..MaxMembers}

\* Series.nunique(): the number of distinct values that are not missing
NUnique(values) == Cardinality(values \ {NoType})

\* stats.py 40-49 and 63-71: per network the number of size classes beyond
\* the first and the number of segments
calculate_network_stats(ndf) ==
    [id \in {ndf[n].networkID : n \in DOMAIN ndf} |->
        LET members == {n \in DOMAIN ndf : ndf[n].networkID = id}
        IN  [NumSizeClassGained |-> NUnique({ndf[n].sizeclass : n \in members}) - 1,
             count |-> Cardinality(members)]]

\* astype("uint8") of an integer column
AsUint8(x) == x % 256

\* network_analysis.py 305-307: the column as barrier_network.csv holds it
CalculateNetworkStats ==
    /\ pc = "calculate_network_stats"
    /\ LET stats == calculate_network_stats(args.df)
       IN  Return("network_stats",
                  [network_stats |-> stats,
                   NumSizeClassGained |->
                       [id \in DOMAIN stats |-> AsUint8(stats[id].NumSizeClassGained)]])

\* the size classes that the members of network id carry
SizeClassesOf(id) ==
    {args.df[n].sizeclass : n \in {k \in DOMAIN args.df : args.df[k].networkID = id}}
        \ {NoType}

\* C22: for every network NumSizeClassGained is the number of distinct size
\* classes of its members minus one, it is one of 0..6 and never negative,
\* in the statistics and in the barrier metrics, also when members carry no
\* size class.
C22_SizeClassesGainedInRange ==
    pc = "network_stats" =>
        \A id \in DOMAIN ret.network_stats :
            /\ ret.network_stats[id].NumSizeClassGained
                  = Cardinality(SizeClassesOf(id)) - 1
            /\ ret.network_stats[id].NumSizeClassGained \in 0..6
            /\ ret.NumSizeClassGained[id] \in 0..6

(***************************************************************************)
(* snap_to_line (nhdnet/geometry/lines.py).  A point is given by its index *)
(* label and its distance to every line of the lines table, by ordinal     *)
(* position; the snapped geometry itself is not modelled.                  *)
(***************************************************************************)
NumSnapLines == 3
MaxPoints == 2
MaxTolerance == 1

\* the lines table, not in lineID order
SnapLines == [i \in 1..NumSnapLines |-> [lineID |-> NumSnapLines + 1 - i]]

\* points tables with unique index labels, in any order
PointTables ==
    UNION {
        {[k \in 1..n |-> [pt_idx |-> label[k], dist |-> d[k]]] :
            label \in {l \in [1..n -> 1..n] : \A a, b \in 1..n : a # b => l[a] # l[b]},
            d \in [1..n -> [1..NumSnapLines -> 0..MaxTolerance + 1]]} : n \in 1..MaxPoints}

\* the lines whose distance to point p is within the tolerance
LinesWithin(p, tolerance) == {i \in DOMAIN p.dist : p.dist[i] <= tolerance}

\* lines.py 90-93: the ordinal positions that the spatial index returns for
\* the window of point p: every line whose bounding box meets the window,
\* so at least the lines within the tolerance, in the order of the index
HitLists(p, tolerance) ==
    UNION {
        {h \in [1..k -> DOMAIN p.dist] :
            /\ \A a, b \in 1..k : a # b => h[a] # h[b]
            /\ LinesWithin(p, tolerance) \subseteq Range(h)} : k \in 0..Len(p.dist)}

\* WithinTolerance that keeps every candidate
WithinTolerance_All(tmp, tolerance) == tmp

\* lines.py 114: the candidates within the tolerance
WithinTolerance(tmp, tolerance) ==
    LET Near(r) == r.snap_dist <= tolerance IN SelectSeq(tmp, Near)

\* lines.py 97-133: snap_to_line(points, lines, tolerance), hits[k] being
\* the hits of the spatial index for points[k]
snap_to_line(points, lines, tolerance, hits) ==
    LET Candidates(k) ==
            LET Row(i) == [pt_idx |-> points[k].pt_idx, line_i |-> i,
                           lineID |-> lines[i].lineID,
                           snap_dist |-> points[k].dist[i]]
            IN  Map(Row, hits[k])
        tmp == FlatMap(Candidates, [k \in DOMAIN points |-> k])
        Lt(a, b) == \/ a.pt_idx < b.pt_idx
                    \/ a.pt_idx = b.pt_idx /\ a.snap_dist < b.snap_dist
        sorted == SortBy(Lt, WithinTolerance(tmp, tolerance))
        Snapped(p) ==
            LET Mine(r) == r.pt_idx = p.pt_idx
                by_pt == SelectSeq(sorted, Mine)
            IN  IF by_pt = <<>> THEN <<>>
                ELSE <<[pt_idx |-> p.pt_idx, lineID |-> by_pt[1].lineID,
                        snap_dist |-> by_pt[1].snap_dist, nearby |-> Len(by_pt)]>>
    IN  FlatMap(Snapped, points)

SnapToLine ==
    /\ pc = "snap_to_line"
    /\ \E hits \in [DOMAIN args.points -> UNION {HitLists(args.points[k], args.tolerance) :
                                                    k \in DOMAIN args.points}] :
          /\ \A k \in DOMAIN args.points :
                hits[k] \in HitLists(args.points[k], args.tolerance)
          /\ Return("snapped",
                    [snapped |-> snap_to_line(args.points, args.lines,
                                              args.tolerance, hits)])

\* the rows that snap_to_line returned for point p
SnappedRowsOf(p) ==
    {n \in DOMAIN ret.snapped : ret.snapped[n].pt_idx = p.pt_idx}

\* the ordinal position of the line with this lineID
OrdinalOf(lineID) == CHOOSE i \in DOMAIN args.lines : args.lines[i].lineID = lineID

\* C23: snap_to_line returns one row for every point that has a line within
\* the tolerance and none for any other point; every row has a snap_dist
\* within the tolerance (the distance to the line it names), the lineID of a
\* line of the lines table, and `nearby` the number of lines within the
\* tolerance of the point.
C23_OneRowPerSnappablePoint ==
    pc = "snapped" =>
        \A k \in DOMAIN args.points :
            LET p == args.points[k]
                within == LinesWithin(p, args.tolerance)
            IN  /\ Cardinality(SnappedRowsOf(p)) = IF within = {} THEN 0 ELSE 1
                /\ \A n \in SnappedRowsOf(p) :
                      LET r == ret.snapped[n] IN
                      /\ r.snap_dist <= args.tolerance
                      /\ r.lineID \in {args.lines[i].lineID : i \in DOMAIN args.lines}
                      /\ r.snap_dist = p.dist[OrdinalOf(r.lineID)]
                      /\ r.nearby = Cardinality(within)

\* C23 witness: of two points one was snapped, with two lines nearby, and
\* the other, with no line within the tolerance, has no row
C23_Witness ==
    /\ pc = "snapped"
    /\ Len(args.points) = 2
    /\ Len(ret.snapped) = 1
    /\ ret.snapped[1].nearby = 2
    /\ \E k \in DOMAIN args.points : LinesWithin(args.points[k], args.tolerance) = {}

\* C24: every point is snapped to a line of the least distance among the
\* lines within the tolerance, and among the lines at that least distance
\* to the one that is first in the lines table, whatever the order of the
\* hits of the spatial index and of the points.
C24_NearestLineLowestOrdinal ==
    pc = "snapped" =>
        \A k \in DOMAIN args.points :
            \A n \in SnappedRowsOf(args.points[k]) :
                LET p == args.points[k]
                    chosen == OrdinalOf(ret.snapped[n].lineID)
                IN  \A i \in LinesWithin(p, args.tolerance) :
                        \/ p.dist[chosen] < p.dist[i]
                        \/ p.dist[chosen] = p.dist[i] /\ chosen <= i

(***************************************************************************)
(* remove_duplicates (nhdnet/geometry/points.py) on points at whole metres.*)
(***************************************************************************)
MaxCoord == 3
MaxDupTolerance == 2

\* points tables: index label = position, coordinates (x, y)
DupPointTables ==
    UNION {
        {[k \in 1..n |-> [idx |-> k, x |-> c[k][1], y |-> c[k][2]]] :
            c \in [1..n -> (0..MaxCoord) \X (0..1)]} : n \in 1..MaxPoints}

\* points.py 60-61: a coordinate rounded down to a multiple of the tolerance
GridCoord(v, tolerance) == (v \div tolerance) * tolerance

\* points.py 59-63: remove_duplicates(df, tolerance): of the points of one
\* grid cell the first is kept
remove_duplicates(points, tolerance) ==
    LET Cell(p) == <<GridCoord(p.x, tolerance), GridCoord(p.y, tolerance)>>
        clean == {k \in DOMAIN points :
                     \A e \in 1..(k - 1) : Cell(points[e]) # Cell(points[k])}
        Kept(p) == p.idx \in {points[k].idx : k \in clean}
    IN  SelectSeq(points, Kept)

RemoveDuplicates ==
    /\ pc = "remove_duplicates"
    /\ Return("deduplicated",
              [points |-> remove_duplicates(args.points, args.tolerance)])

\* the two points are within the tolerance of each other
Near(p, q, tolerance) ==
    (p.x - q.x) * (p.x - q.x) + (p.y - q.y) * (p.y - q.y) <= tolerance * tolerance

\* C25: after remove_duplicates no two retained points are within the
\* tolerance of each other, the first point is retained, and every point
\* that was dropped has an earlier retained point within the tolerance.
C25_RetainedPointsAreApart ==
    pc = "deduplicated" =>
        /\ \A a, b \in DOMAIN ret.points :
              a # b => ~Near(ret.points[a], ret.points[b], args.tolerance)
        /\ \A k \in DOMAIN args.points :
              \/ args.points[k] \in Range(ret.points)
              \/ \E e \in 1..(k - 1) :
                    /\ args.points[e] \in Range(ret.points)
                    /\ Near(args.points[e], args.points[k], args.tolerance)

(***************************************************************************)
(* extract_flowlines (nhdnet/nhd/extract.py).  A 64-bit NHDPlusID is four  *)
(* 16-bit limbs, most significant first, and a uint32 lineID two, so that  *)
(* both keep their width.                                                  *)
(***************************************************************************)
Limb == 65536

Zero64 == <<0, 0, 0, 0>>
Zero32 == <<0, 0>>

\* astype("uint32") of a uint64: the low 32 bits
AsUint32(id) == <<id[3], id[4]>>

\* v + 1 in uint32 arithmetic
PlusOne32(v) ==
    IF v[2] + 1 < Limb THEN <<v[1], v[2] + 1>>
    ELSE IF v[1] + 1 < Limb THEN <<v[1] + 1, 0>>
    ELSE Zero32

\* extract.py 133: the lineID of the flowline with this NHDPlusID
LineIDOf(id) == PlusOne32(AsUint32(id))

MaxFlow == 2

\* NHDPlusIDs of the third flowline: small, equal to another one in the low
\* 32 bits, and with all low 32 bits set
ThirdNHDPlusIDs ==
    {<<0, 0, 0, 3>>, <<0, 1, 0, 1>>, <<5, 0, 0, 2>>, <<0, 0, Limb - 1, Limb - 1>>,
     <<0, 7, Limb - 1, Limb - 1>>}

\* the NHDFlowline layer: three flowlines with distinct NHDPlusIDs, each a
\* stream (FType 460) or a coastline (FType 566), with or without a record
\* in the VAA table
RawFlowlines ==
    {[l \in 1..3 |-> [NHDPlusID |-> IF l = 3 THEN third ELSE <<0, 0, 0, l>>,
                      FType |-> ftype[l], vaa |-> vaa[l]]] :
        third \in ThirdNHDPlusIDs, ftype \in [1..3 -> {460, 566}],
        vaa \in [1..3 -> BOOLEAN]}

\* the NHDPlusFlow layer: rows (From, To) between the flowlines, 0 where
\* there is none
RawFlow(fl) ==
    LET idset == {fl[l].NHDPlusID : l \in DOMAIN fl} \cup {Zero64}
        pairs == {p \in idset \X idset : p[1] # p[2]}
    IN  UNION {
            {[k \in 1..n |-> [upstream |-> f[k][1], downstream |-> f[k][2]]] :
                f \in {g \in [1..n -> pairs] : \A a, b \in 1..n : a # b => g[a] # g[b]}} :
            n \in 0..MaxFlow}

\* extract.py 62-179: extract_flowlines, the flowlines and the joins
extract_flowlines(fl, flow) ==
    LET HasVAA(f) == f.vaa
        joined == SelectSeq(fl, HasVAA)
        coastline_idx == {joined[l].NHDPlusID : l \in {k \in DOMAIN joined :
                                                        joined[k].FType = 566}}
        NotCoastline(f) == f.NHDPlusID \notin coastline_idx
        WithLineID(f) == [NHDPlusID |-> f.NHDPlusID, FType |-> f.FType,
                          lineID |-> LineIDOf(f.NHDPlusID)]
        flowlines_out == Map(WithLineID, SelectSeq(joined, NotCoastline))
        UpstreamKept(j) == j.upstream \notin coastline_idx
        ToSea(j) == [j EXCEPT !.downstream =
                        IF j.downstream \in coastline_idx THEN Zero64 ELSE @]
        join_df == DropDuplicates(Map(ToSea, SelectSeq(flow, UpstreamKept)))
        Lookup(id) ==
            IF \E l \in DOMAIN flowlines_out : flowlines_out[l].NHDPlusID = id
            THEN LineIDOf(id) ELSE Zero32
        Typed(j) ==
            LET uid == Lookup(j.upstream) IN
            [upstream |-> j.upstream, downstream |-> j.downstream,
             upstream_id |-> uid, downstream_id |-> Lookup(j.downstream),
             type |-> IF j.upstream # Zero64 /\ uid = Zero32 THEN "huc_in"
                      ELSE IF j.downstream = Zero64 THEN "terminal"
                      ELSE IF j.upstream = Zero64 THEN "origin"
                      ELSE "internal"]
    IN  [flowlines |-> flowlines_out, joins |-> Map(Typed, join_df)]

ExtractFlowlines ==
    /\ pc = "extract_flowlines"
    /\ Return("extracted", extract_flowlines(args.flowlines, args.flow))

\* C26: the joins of extract_flowlines have no row with upstream_id = 0 and
\* downstream_id = 0, every row with upstream_id = 0 is of type origin,
\* every row with downstream_id = 0 is of type terminal, and no two rows
\* are equal, also when a flowline of a join was dropped.
C26_ExtractedJoinsInvariants ==
    pc = "extracted" =>
        /\ \A n \in DOMAIN ret.joins :
              LET j == ret.joins[n] IN
              /\ ~(j.upstream_id = Zero32 /\ j.downstream_id = Zero32)
              /\ j.upstream_id = Zero32 => j.type = "origin"
              /\ j.downstream_id = Zero32 => j.type = "terminal"
        /\ \A a, b \in DOMAIN ret.joins : a # b => ret.joins[a] # ret.joins[b]

\* C28: every extracted flowline has a lineID of 32 bits that is not 0, and
\* no two extracted flowlines have the same lineID.
C28_LineIDsNonzeroAndUnique ==
    pc = "extracted" =>
        /\ \A l \in DOMAIN ret.flowlines :
              /\ ret.flowlines[l].lineID \in (0..Limb - 1) \X (0..Limb - 1)
              /\ ret.flowlines[l].lineID # Zero32
        /\ \A a, b \in DOMAIN ret.flowlines :
              a # b => ret.flowlines[a].lineID # ret.flowlines[b].lineID

(***************************************************************************)
(* The preparation functions on their arguments.                           *)
(***************************************************************************)
InitPrepare ==
    /\ NotProcessed
    /\ ret = <<>>
    /\ \/ /\ pc = "calculate_network_stats"
          /\ args \in {[df |-> f] : f \in NetworkFrames}
       \/ /\ pc = "snap_to_line"
          /\ args \in {[points |-> p, lines |-> SnapLines, tolerance |-> t] :
                          p \in PointTables, t \in 1..MaxTolerance}
       \/ /\ pc = "remove_duplicates"
          /\ args \in {[points |-> p, tolerance |-> t] :
                          p \in DupPointTables, t \in 1..MaxDupTolerance}
       \/ /\ pc = "extract_flowlines"
          /\ \E fl \in RawFlowlines :
                args \in {[flowlines |-> fl, flow |-> f] : f \in RawFlow(fl)}

NextPrepare ==
    \/ ExtractFlowlines
    \/ RemoveDuplicates
    \/ SnapToLine
    \/ CalculateNetworkStats

SpecPrepare == InitPrepare /\ [][NextPrepare]_vars

====
